---- MODULE Spec2Model ----
(***************************************************************************)
(* Model of soundbox.py: the flash-archive codec (pack_files,              *)
(* read_bin_file, extract_files) with its CRC-16 and its 32-byte entries.  *)
(* Bytes are integers 0..255, byte strings are sequences of bytes, text is *)
(* a sequence of Unicode code points.                                      *)
(***************************************************************************)
EXTENDS Integers, Sequences, FiniteSets, TLC

\* ------------------------------------------------------------------ bounds

\* Largest number of items (files and sub-directories) in the input directory.
MaxItems == 2
\* Largest number of items in the input directory of the tamper runs.
MaxTamperItems == 2
\* Largest number of 32-byte slots of a hand-made buffer.
MaxSlots == 2

\* ------------------------------------------------------- program constants

\* entry_size of read_bin_file: the size of one directory record.
entry_size == 32

\* ------------------------------------------------------------ bit helpers

RECURSIVE XorBits(_, _)
\* a ^ b on non-negative integers, bit by bit.
XorBits(a, b) ==
    IF a = 0 THEN b
    ELSE IF b = 0 THEN a
    ELSE (((a % 2) + (b % 2)) % 2) + 2 * XorBits(a \div 2, b \div 2)

XorNibble == [a \in 0..15 |-> [b \in 0..15 |-> XorBits(a, b)]]

\* a ^ b on bytes.
Xor8(a, b) ==
    16 * XorNibble[a \div 16][b \div 16] + XorNibble[a % 16][b % 16]

\* a ^ b on 16-bit values.
Xor(a, b) == 256 * Xor8(a \div 256, b \div 256) + Xor8(a % 256, b % 256)

RECURSIVE Pow2(_)
Pow2(n) == IF n = 0 THEN 1 ELSE 2 * Pow2(n - 1)

\* b'\xFF' * n style repetition of one byte.
Rep(b, n) == [k \in 1..n |-> b]

\* ------------------------------------------------------------------ CRC-16

RECURSIVE CrcShift(_, _)
\* One table entry of crcmod for polynomial 0x11021, not reflected: n more
\* shifts of the 16-bit register r.
CrcShift(r, n) ==
    IF n = 0 THEN r
    ELSE CrcShift(IF r >= 32768 THEN XorBits((r * 2) % 65536, 4129)
                  ELSE r * 2, n - 1)

CrcTable == [t \in 0..255 |-> CrcShift(t * 256, 8)]

\* An update that leaves the input byte out of the table index.
CrcByteNoInput(crc, byte) ==
    Xor((crc % 256) * 256, CrcTable[crc \div 256])

\* The table-driven update of crcmod by one byte.
CrcByte(crc, byte) ==
    Xor((crc % 256) * 256, CrcTable[Xor8(crc \div 256, byte)])

RECURSIVE CrcRun(_, _, _, _)
\* The register after bytes lo..hi of a string, starting from crc. The bytes
\* are taken in order; the range is halved only to keep the evaluation shallow.
CrcRun(bytes, lo, hi, crc) ==
    IF lo > hi THEN crc
    ELSE IF lo = hi THEN CrcByte(crc, bytes[lo])
    ELSE LET mid  == (lo + hi) \div 2
             left == CrcRun(bytes, lo, mid, crc)
         IN  IF left >= 0 THEN CrcRun(bytes, mid + 1, hi, left) ELSE 0

\* A CRC function that forgets the last byte of its input.
crc16_short(bytes) ==
    CrcRun(bytes, 1, Len(bytes) - 1, 0)

\* crc16_ccitt = crcmod.mkCrcFun(0x11021, initCrc=0x0000, xorOut=0x0000, rev=False)
crc16_ccitt(bytes) == CrcRun(bytes, 1, Len(bytes), 0)

\* ------------------------------------------------------------ Python bytes

\* data[lo:hi] of Python for lo >= 0: a negative hi counts from the end, and
\* both ends are clamped to the string.
Slice(data, lo, hi) ==
    LET n  == Len(data)
        h0 == IF hi < 0 THEN hi + n ELSE hi
        h  == IF h0 < 0 THEN 0 ELSE IF h0 > n THEN n ELSE h0
        l  == IF lo > n THEN n ELSE lo
    IN  IF h <= l THEN <<>> ELSE SubSeq(data, l + 1, h)

\* The positions (0-based) that Slice(data, lo, hi) reads.
SlicePositions(data, lo, hi) ==
    LET n  == Len(data)
        h0 == IF hi < 0 THEN hi + n ELSE hi
        h  == IF h0 < 0 THEN 0 ELSE IF h0 > n THEN n ELSE h0
        l  == IF lo > n THEN n ELSE lo
    IN  l .. (h - 1)

\* struct.pack('<H', v), struct.pack('<I', v): little-endian.
PackLE(v, width) == [k \in 1..width |-> (v \div Pow2(8 * (k - 1))) % 256]

RECURSIVE UnpackLE(_)
\* struct.unpack of a little-endian unsigned integer.
UnpackLE(bytes) ==
    IF bytes = <<>> THEN 0 ELSE Head(bytes) + 256 * UnpackLE(Tail(bytes))

\* Every buffer of the model is far shorter than this many bytes.
Huge == 256 * 256 * 256

\* struct.unpack of a 4-byte little-endian unsigned integer. Python's integers
\* do not overflow; TLC's are 32 bits wide, so a value of Huge or more
\* is kept as Huge: the value is only ever used as an end of a slice of a
\* buffer, where every value past the end of the buffer acts alike.
UnpackU32(bytes) ==
    IF bytes[4] > 0 THEN Huge ELSE UnpackLE(SubSeq(bytes, 1, 3))

\* bytes.ljust(width, fill)
LJust(bytes, width, fill) ==
    IF Len(bytes) >= width THEN bytes
    ELSE bytes \o Rep(fill, width - Len(bytes))

\* bytes.split(b'\x00', 1)[0]: the bytes before the first NUL, or all of them.
BeforeNul(bytes) ==
    LET nuls == {k \in 1..Len(bytes) : bytes[k] = 0}
    IN  IF nuls = {} THEN bytes
        ELSE SubSeq(bytes, 1, (CHOOSE k \in nuls : \A j \in nuls : k <= j) - 1)

\* ------------------------------------------------------------------- UTF-8

\* str.encode('utf-8') of one code point.
EncodePoint(cp) ==
    IF cp < 128 THEN <<cp>>
    ELSE IF cp < 2048 THEN <<192 + (cp \div 64), 128 + (cp % 64)>>
    ELSE IF cp < 65536 THEN
        <<224 + (cp \div 4096), 128 + ((cp \div 64) % 64), 128 + (cp % 64)>>
    ELSE <<240 + (cp \div 262144), 128 + ((cp \div 4096) % 64),
           128 + ((cp \div 64) % 64), 128 + (cp % 64)>>

RECURSIVE Utf8Encode(_)
\* str.encode('utf-8')
Utf8Encode(text) ==
    IF text = <<>> THEN <<>> ELSE EncodePoint(Head(text)) \o Utf8Encode(Tail(text))

IsCont(b) == b >= 128 /\ b <= 191

\* The length of the well-formed UTF-8 sequence that starts at bytes[k], or 0
\* when there is none (the strict decoder of Python raises there).
SeqLen(bytes, k) ==
    LET b  == bytes[k]
        n  == Len(bytes)
        c1 == IF k + 1 <= n THEN bytes[k + 1] ELSE 0
        c2 == IF k + 2 <= n THEN bytes[k + 2] ELSE 0
        c3 == IF k + 3 <= n THEN bytes[k + 3] ELSE 0
    IN  IF b < 128 THEN 1
        ELSE IF b >= 194 /\ b <= 223 THEN (IF IsCont(c1) THEN 2 ELSE 0)
        ELSE IF b = 224 THEN
            (IF c1 >= 160 /\ c1 <= 191 /\ IsCont(c2) THEN 3 ELSE 0)
        ELSE IF b = 237 THEN
            (IF c1 >= 128 /\ c1 <= 159 /\ IsCont(c2) THEN 3 ELSE 0)
        ELSE IF b >= 225 /\ b <= 239 THEN
            (IF IsCont(c1) /\ IsCont(c2) THEN 3 ELSE 0)
        ELSE IF b = 240 THEN
            (IF c1 >= 144 /\ c1 <= 191 /\ IsCont(c2) /\ IsCont(c3) THEN 4 ELSE 0)
        ELSE IF b >= 241 /\ b <= 243 THEN
            (IF IsCont(c1) /\ IsCont(c2) /\ IsCont(c3) THEN 4 ELSE 0)
        ELSE IF b = 244 THEN
            (IF c1 >= 128 /\ c1 <= 143 /\ IsCont(c2) /\ IsCont(c3) THEN 4 ELSE 0)
        ELSE 0

RECURSIVE Utf8ValidFrom(_, _)
Utf8ValidFrom(bytes, k) ==
    IF k > Len(bytes) THEN TRUE
    ELSE LET n == SeqLen(bytes, k)
         IN  IF n = 0 THEN FALSE ELSE Utf8ValidFrom(bytes, k + n)

\* Whether bytes.decode('utf-8') returns (it raises UnicodeDecodeError if not).
Utf8Valid(bytes) == Utf8ValidFrom(bytes, 1)

RECURSIVE Utf8DecodeFrom(_, _)
Utf8DecodeFrom(bytes, k) ==
    IF k > Len(bytes) THEN <<>>
    ELSE LET n  == SeqLen(bytes, k)
             b  == bytes[k]
             cp == IF n = 1 THEN b
                   ELSE IF n = 2 THEN (b - 192) * 64 + (bytes[k + 1] - 128)
                   ELSE IF n = 3 THEN (b - 224) * 4096 + (bytes[k + 1] - 128) * 64
                                      + (bytes[k + 2] - 128)
                   ELSE (b - 240) * 262144 + (bytes[k + 1] - 128) * 4096
                        + (bytes[k + 2] - 128) * 64 + (bytes[k + 3] - 128)
         IN  <<cp>> \o Utf8DecodeFrom(bytes, k + n)

\* bytes.decode('utf-8') of a valid string.
Utf8Decode(bytes) == Utf8DecodeFrom(bytes, 1)

\* ------------------------------------------------------------- the codec

\* The marker of the last entry, b'\xFF\x01\x00' (bytes in the wrong order).
LastMarkerSwapped == <<255, 0, 1>>

\* The marker of the last entry, b'\xFF\x01\x00'.
LastMarker == <<255, 1, 0>>

\* The marker of every other entry, b'\xFF\x00\x00'.
PlainMarker == <<255, 0, 0>>

\* The name field of one entry: bytes 16..31, up to the first NUL.
NameBytes(entry_data) == BeforeNul(Slice(entry_data, 16, 32))

\* parse_entry raises UnicodeDecodeError when the name is not UTF-8.
ParseRaises(entry_data) == ~Utf8Valid(NameBytes(entry_data))

\* parse_entry of a 32-byte slot whose name decodes.
parse_entry(entry_data) ==
    LET type_flag == entry_data[13]
    IN  [ HeaderCRC      |-> UnpackLE(Slice(entry_data, 0, 2)),
          DataCRC        |-> UnpackLE(Slice(entry_data, 2, 4)),
          Offset         |-> UnpackU32(Slice(entry_data, 4, 8)),
          Size           |-> UnpackU32(Slice(entry_data, 8, 12)),
          Type           |-> IF type_flag = 2 THEN "File"
                             ELSE IF type_flag = 3 THEN "Directory"
                             ELSE "Unknown",
          Name           |-> Utf8Decode(NameBytes(entry_data)),
          Unknown1_bytes |-> Slice(entry_data, 13, 16),
          EntryData      |-> Slice(entry_data, 2, 32) ]

\* verify_header_crc(entry) = "Header CRC OK"
verify_header_crc(entry) == crc16_ccitt(entry.EntryData) = entry.HeaderCRC

\* The end of the payload slice without the directory's 32-byte cut.
DataEndNoCut(entry) == entry.Offset + entry.Size

\* The end of the slice verify_data_crc takes: Offset + Size, less 32 for a
\* Directory entry.
DataEnd(entry) ==
    entry.Offset + (IF entry.Type = "Directory" THEN entry.Size - 32
                    ELSE entry.Size)

\* The bytes verify_data_crc feeds to the checksum: data[offset:offset + size].
file_data_of(entry, data) == Slice(data, entry.Offset, DataEnd(entry))

\* The positions of data that verify_data_crc reads.
DataDomain(entry, data) == SlicePositions(data, entry.Offset, DataEnd(entry))

\* verify_data_crc(entry, data) = "Data CRC OK"
verify_data_crc(entry, data) ==
    crc16_ccitt(file_data_of(entry, data)) = entry.DataCRC

\* The sentinel test of read_bin_file with the marker bytes swapped.
IsLastEntrySwapped(entry) == entry.Unknown1_bytes = LastMarkerSwapped

\* entry['Unknown1_bytes'] == b'\xFF\x01\x00'
IsLastEntry(entry) == entry.Unknown1_bytes = LastMarker

\* The abort test of read_bin_file, looking at the header check only.
CrcErrorHeaderOnly(header_ok, data_ok) == ~header_ok

\* header_crc_status != "Header CRC OK" or data_crc_status != "Data CRC OK"
CrcError(header_ok, data_ok) == ~header_ok \/ ~data_ok

\* pad_to_multiple_of_16
pad_to_multiple_of_16(file_data) ==
    LET padding_needed == (16 - (Len(file_data) % 16)) % 16
    IN  file_data \o Rep(255, padding_needed)

\* The name field without its NUL terminator.
EntryNameNoNul(name) == Slice(LJust(Utf8Encode(name), 16, 255), 0, 16)

\* (name.encode('utf-8') + b'\x00').ljust(16, b'\xFF')[:16]
EntryName(name) == Slice(LJust(Utf8Encode(name) \o <<0>>, 16, 255), 0, 16)

\* struct.pack('<H I I B 3s 16s', ...): the 30 bytes after the header CRC.
HeaderData(data_crc, off, size, entry_type, unknown1, entry_name) ==
    PackLE(data_crc, 2) \o PackLE(off, 4) \o PackLE(size, 4)
        \o <<entry_type>> \o unknown1 \o entry_name

\* struct.pack('<H', header_crc) + header_data
FullEntry(header_data) == PackLE(crc16_ccitt(header_data), 2) \o header_data

RECURSIVE Join(_)
\* b''.join(list of byte strings)
Join(list) == IF list = <<>> THEN <<>> ELSE Head(list) \o Join(Tail(list))

\* 32 * (len(os.listdir(input_dir)) + 1)
StartOffset(dir) == 32 * (Len(dir) + 1)

\* The file data extract_files writes, padded out to the 16-byte block.
ExtractedDataPadded(entry, data) ==
    Slice(data, entry.Offset, entry.Offset + Len(pad_to_multiple_of_16(Rep(0, entry.Size))))

\* data[offset:offset + size] of extract_files
ExtractedData(entry, data) ==
    Slice(data, entry.Offset, entry.Offset + entry.Size)

\* ------------------------------------------------------------------ inputs

\* "a"
NameA == <<97>>
\* thirteen "b" and one two-byte letter: 14 characters, 15 UTF-8 bytes
Name15 == Rep(98, 13) \o <<233>>
\* sixteen "c": one byte more than the name field can terminate
Name16 == Rep(99, 16)
\* "d"
NameD == <<100>>

\* The items an input directory is drawn from: regular files and one
\* sub-directory.
Items ==
    { [name |-> NameA,  isfile |-> TRUE,  content |-> <<>>],
      [name |-> NameA,  isfile |-> TRUE,  content |-> <<1, 2, 255>>],
      [name |-> Name15, isfile |-> TRUE,  content |-> [k \in 1..16 |-> k]],
      [name |-> Name15, isfile |-> TRUE,  content |-> Rep(170, 20)],
      [name |-> Name16, isfile |-> TRUE,  content |-> <<7>>],
      [name |-> NameD,  isfile |-> FALSE, content |-> <<>>] }

\* The items of the tamper runs.
TamperItems ==
    { [name |-> NameA,  isfile |-> TRUE,  content |-> <<1, 2, 255>>],
      [name |-> Name15, isfile |-> TRUE,  content |-> <<>>],
      [name |-> NameD,  isfile |-> TRUE,  content |-> <<170, 170>>] }

RECURSIVE TextLess(_, _)
\* s < t on Python str: by code point, a proper prefix first.
TextLess(s, t) ==
    IF t = <<>> THEN FALSE
    ELSE IF s = <<>> THEN TRUE
    ELSE IF Head(s) # Head(t) THEN Head(s) < Head(t)
    ELSE TextLess(Tail(s), Tail(t))

\* sorted(os.listdir(input_dir)) of a directory holding the items of S: the
\* names of one directory are distinct.
SortedListings(pool, max) ==
    { dir \in UNION { [1..n -> pool] : n \in 0..max } :
        \A k \in 1..(Len(dir) - 1) : TextLess(dir[k].name, dir[k + 1].name) }

\* ------------------------------------------------------------------- state

VARIABLES
    listing,       \* the input directory: sorted(os.listdir) with each item's kind and content
    pc,            \* where the program is
    i,             \* pack_files: the loop index
    offset,        \* pack_files: the running offset
    entries,       \* pack_files: the header entries built so far
    binary_data,   \* pack_files: the payload buffer
    binfile,       \* the archive file on disk
    flip,          \* the bit of the archive file flipped on disk (8 * byte + bit), or -1
    do_extract,    \* whether the reading run was started with -e
    data,          \* read_bin_file: the bytes read
    si,            \* read_bin_file: the index of the scan loop
    read_entries,  \* read_bin_file: the entries collected
    vi,            \* read_bin_file: the index of the verification loop
    printed,       \* read_bin_file: the check results printed, one per verified entry
    xi,            \* extract_files: the loop index
    out            \* extract_files: the files written, in order

vars == <<listing, pc, i, offset, entries, binary_data, binfile, flip,
          do_extract, data, si, read_entries, vi, printed, xi, out>>

packVars == <<i, offset, entries, binary_data>>
readVars == <<do_extract, data, si, read_entries, vi, printed, xi, out>>

\* The state of a run that packs the directory dir.
StartPack(dir) ==
    /\ listing = dir
    /\ pc = "pack"
    /\ i = 0
    /\ offset = StartOffset(dir)
    /\ entries = <<>>
    /\ binary_data = <<>>
    /\ binfile = <<>>
    /\ flip = -1
    /\ do_extract = FALSE
    /\ data = <<>>
    /\ si = 0
    /\ read_entries = <<>>
    /\ vi = 0
    /\ printed = <<>>
    /\ xi = 0
    /\ out = <<>>

Init == \E dir \in SortedListings(Items, MaxItems) : StartPack(dir)

\* ------------------------------------------------------------- pack_files

\* One iteration of the loop over file_list.
PackIter ==
    /\ pc = "pack"
    /\ i < Len(listing)
    /\ LET item == listing[i + 1]
           file_data == item.content
           size == Len(file_data)
           file_data_padded == pad_to_multiple_of_16(file_data)
           size_padded == Len(file_data_padded)
           data_crc == crc16_ccitt(file_data)
           unknown1 == IF i = Len(listing) - 1 THEN LastMarker ELSE PlainMarker
           header_data == HeaderData(data_crc, offset, size, 2, unknown1,
                                     EntryName(item.name))
       IN  IF item.isfile
           THEN /\ entries' = Append(entries, FullEntry(header_data))
                /\ binary_data' = binary_data \o file_data_padded
                /\ offset' = offset + size_padded
           ELSE UNCHANGED <<entries, binary_data, offset>>
    /\ i' = i + 1
    /\ UNCHANGED <<listing, pc, binfile, flip>>
    /\ UNCHANGED readVars

\* After the loop: the directory entry is made and put first, and the archive
\* is written.
PackWrite ==
    /\ pc = "pack"
    /\ i = Len(listing)
    /\ LET data_crc == crc16_ccitt(Join(entries) \o binary_data)
           header_data == HeaderData(data_crc, 32, offset, 3, PlainMarker,
                                     EntryName(<<116, 101, 115, 116, 95, 100, 105, 114>>))
           all == <<FullEntry(header_data)>> \o entries
       IN  /\ entries' = all
           /\ binfile' = Join(all) \o binary_data
    /\ offset' = offset + 32
    /\ pc' = "ready"
    /\ UNCHANGED <<listing, i, binary_data, flip>>
    /\ UNCHANGED readVars

\* ---------------------------------------------------------- read_bin_file

\* len(data) // entry_size
num_entries == Len(data) \div entry_size

\* The program is run again on the archive file, with or without -e.
ReadStart ==
    /\ pc = "ready"
    /\ \E e \in BOOLEAN : do_extract' = e
    /\ data' = binfile
    /\ pc' = "scan"
    /\ UNCHANGED <<listing, binfile, flip, si, read_entries, vi, printed, xi, out>>
    /\ UNCHANGED packVars

\* One iteration of the scan loop: parse slot si, collect it, stop at the
\* sentinel; a name that is not UTF-8 raises out of the program.
ScanSlot ==
    /\ pc = "scan"
    /\ si < num_entries
    /\ LET entry_data == Slice(data, si * entry_size, (si + 1) * entry_size)
       IN  IF ParseRaises(entry_data)
           THEN /\ pc' = "UnicodeDecodeError"
                /\ UNCHANGED <<si, read_entries>>
           ELSE /\ read_entries' = Append(read_entries, parse_entry(entry_data))
                /\ IF IsLastEntry(parse_entry(entry_data))
                   THEN pc' = "verify" /\ si' = si
                   ELSE pc' = "scan" /\ si' = si + 1
    /\ UNCHANGED <<listing, binfile, flip, do_extract, data, vi, printed, xi, out>>
    /\ UNCHANGED packVars

\* The scan loop runs out of slots.
ScanEnd ==
    /\ pc = "scan"
    /\ si >= num_entries
    /\ pc' = "verify"
    /\ UNCHANGED <<listing, binfile, flip, do_extract, data, si, read_entries,
                   vi, printed, xi, out>>
    /\ UNCHANGED packVars

\* One iteration of the verification loop: both checks, the line printed, and
\* exit() on a mismatch.
VerifyEntry ==
    /\ pc = "verify"
    /\ vi < Len(read_entries)
    /\ LET entry == read_entries[vi + 1]
           header_ok == verify_header_crc(entry)
           data_ok == verify_data_crc(entry, data)
       IN  /\ printed' = Append(printed, [header_ok |-> header_ok,
                                          payload_ok |-> data_ok])
           /\ IF CrcError(header_ok, data_ok)
              THEN pc' = "aborted" /\ vi' = vi
              ELSE pc' = "verify" /\ vi' = vi + 1
    /\ UNCHANGED <<listing, binfile, flip, do_extract, data, si, read_entries, xi, out>>
    /\ UNCHANGED packVars

\* read_bin_file returns entries and data: extraction follows under -e.
VerifyEnd ==
    /\ pc = "verify"
    /\ vi >= Len(read_entries)
    /\ pc' = IF do_extract THEN "extract" ELSE "done"
    /\ UNCHANGED <<listing, binfile, flip, do_extract, data, si, read_entries,
                   vi, printed, xi, out>>
    /\ UNCHANGED packVars

\* ---------------------------------------------------------- extract_files

\* One iteration of the loop of extract_files: a File entry is written under
\* its name (an empty name is the output directory itself, and open raises).
ExtractEntry ==
    /\ pc = "extract"
    /\ xi < Len(read_entries)
    /\ LET entry == read_entries[xi + 1]
       IN  IF entry.Type = "File"
           THEN IF entry.Name = <<>>
                THEN pc' = "IsADirectoryError" /\ UNCHANGED <<xi, out>>
                ELSE /\ out' = Append(out, [name |-> entry.Name,
                                            bytes |-> ExtractedData(entry, data)])
                     /\ xi' = xi + 1
                     /\ pc' = "extract"
           ELSE /\ xi' = xi + 1
                /\ UNCHANGED <<out, pc>>
    /\ UNCHANGED <<listing, binfile, flip, do_extract, data, si, read_entries,
                   vi, printed>>
    /\ UNCHANGED packVars

ExtractEnd ==
    /\ pc = "extract"
    /\ xi >= Len(read_entries)
    /\ pc' = "done"
    /\ UNCHANGED <<listing, binfile, flip, do_extract, data, si, read_entries,
                   vi, printed, xi, out>>
    /\ UNCHANGED packVars

Next ==
    \/ PackIter
    \/ PackWrite
    \/ ReadStart
    \/ ScanSlot
    \/ ScanEnd
    \/ VerifyEntry
    \/ VerifyEnd
    \/ ExtractEntry
    \/ ExtractEnd

Spec == Init /\ [][Next]_vars

\* ------------------------------------------------------ the tamper runs

\* Between the two runs one bit of the archive file is flipped on disk.
Tamper ==
    /\ pc = "ready"
    /\ flip = -1
    /\ \E p \in 0..(Len(binfile) - 1), b \in 0..7 :
        /\ binfile' = [binfile EXCEPT ![p + 1] = Xor8(@, Pow2(b))]
        /\ flip' = 8 * p + b
    /\ UNCHANGED <<listing, pc>>
    /\ UNCHANGED packVars
    /\ UNCHANGED readVars

InitTamper == \E dir \in SortedListings(TamperItems, MaxTamperItems) : StartPack(dir)

NextTamper == Next \/ Tamper

SpecTamper == InitTamper /\ [][NextTamper]_vars

\* ------------------------------------------------- reading any byte buffer

\* One 32-byte slot: the header CRC is the right one shifted by crc_off.
MakeSlot(crc_off, data_crc, off, size, type_flag, unknown1, name_field) ==
    LET header_data == HeaderData(data_crc, off, size, type_flag, unknown1, name_field)
    IN  PackLE((crc16_ccitt(header_data) + crc_off) % 65536, 2) \o header_data

\* The slots the hand-made buffers are built from.
Slots ==
    { \* an empty File "a" whose checks pass
      MakeSlot(0, 0, 0, 0, 2, PlainMarker, EntryName(NameA)),
      \* the same with the sentinel
      MakeSlot(0, 0, 0, 0, 2, LastMarker, EntryName(NameA)),
      \* a File of 8 bytes at 16 with a payload CRC of 0
      MakeSlot(0, 0, 16, 8, 2, PlainMarker, EntryName(Name15)),
      \* a Directory with offset 0 and size 0
      MakeSlot(0, 0, 0, 0, 3, PlainMarker, EntryName(NameD)),
      \* a Directory with offset 32 and size 40
      MakeSlot(0, 0, 32, 40, 3, PlainMarker, EntryName(NameD)),
      \* an entry of unknown type with the sentinel and a wrong header CRC
      MakeSlot(1, 0, 0, 0, 7, LastMarker, EntryName(NameA)),
      \* a File whose name field is not UTF-8
      MakeSlot(0, 0, 0, 0, 2, PlainMarker, Rep(255, 16)),
      \* a File with an empty name
      MakeSlot(0, 0, 0, 0, 2, PlainMarker, EntryName(<<>>)) }

\* The lengths of the incomplete slot that may end a buffer.
Trailing == {0, 5}

\* The buffers read: up to MaxSlots slots and an incomplete one.
Buffers ==
    { Join(slots) \o Rep(255, t) :
        slots \in UNION { [1..n -> Slots] : n \in 0..MaxSlots }, t \in Trailing }

InitBuf ==
    \E buf \in Buffers :
        /\ listing = <<>>
        /\ pc = "ready"
        /\ i = 0
        /\ offset = 0
        /\ entries = <<>>
        /\ binary_data = <<>>
        /\ binfile = buf
        /\ flip = -1
        /\ do_extract = FALSE
        /\ data = <<>>
        /\ si = 0
        /\ read_entries = <<>>
        /\ vi = 0
        /\ printed = <<>>
        /\ xi = 0
        /\ out = <<>>

NextBuf ==
    \/ ReadStart
    \/ ScanSlot
    \/ ScanEnd
    \/ VerifyEntry
    \/ VerifyEnd
    \/ ExtractEntry
    \/ ExtractEnd

SpecBuf == InitBuf /\ [][NextBuf]_vars

\* ------------------------------------------------- what the claims speak of

\* Every item of the input directory is a regular file.
RegularOnly == \A k \in 1..Len(listing) : listing[k].isfile

\* Every name of the input directory fits the name field with its NUL.
NamesFit == \A k \in 1..Len(listing) : Len(Utf8Encode(listing[k].name)) <= 15

\* The number of regular files of the input directory.
NumFiles == Cardinality({k \in 1..Len(listing) : listing[k].isfile})

\* Slot k (0-based) of a buffer.
SlotOf(buf, k) == Slice(buf, k * entry_size, (k + 1) * entry_size)

\* The read run has left the scan loop normally.
Scanned == pc \in {"verify", "aborted", "extract", "done"}

\* The read run has left the verification loop normally.
Verified == pc \in {"extract", "done"}

\* ------------------------------------------------------------------ C1

\* C1: when the input directory holds N regular files with names of at most
\* 15 UTF-8 bytes, the read run of the archive pack_files wrote collects
\* exactly N + 1 entries, the Directory entry first and then the N File
\* entries in pack order, every line printed has both checks passing, and the
\* run neither aborts nor raises.
C1_RoundTripChecks ==
    (RegularOnly /\ NamesFit /\ flip = -1) =>
        /\ pc \notin {"aborted", "UnicodeDecodeError", "IsADirectoryError"}
        /\ \A k \in 1..Len(printed) : printed[k].header_ok /\ printed[k].payload_ok
        /\ Scanned =>
            /\ Len(read_entries) = Len(listing) + 1
            /\ read_entries[1].Type = "Directory"
            /\ \A k \in 1..Len(listing) :
                /\ read_entries[k + 1].Type = "File"
                /\ read_entries[k + 1].Name = listing[k].name
        /\ Verified => Len(printed) = Len(listing) + 1

C1_Witness ==
    /\ RegularOnly /\ NamesFit /\ flip = -1
    /\ Len(listing) = 2
    /\ pc = "done"
    /\ Len(printed) = 3

\* ------------------------------------------------------------------ C2

\* C2: when the input directory holds regular files with names of at most 15
\* UTF-8 bytes, the files extract_files writes are, in order, the files of the
\* directory: each under its original name and with exactly its original
\* bytes, no padding and no neighbour's byte; a finished -e run has written
\* all of them.
C2_RoundTripContents ==
    (RegularOnly /\ NamesFit /\ flip = -1) =>
        /\ Len(out) <= Len(listing)
        /\ \A k \in 1..Len(out) :
            out[k] = [name |-> listing[k].name, bytes |-> listing[k].content]
        /\ (pc = "done" /\ do_extract) => Len(out) = Len(listing)

C2_Witness ==
    /\ RegularOnly /\ NamesFit /\ flip = -1
    /\ pc = "done" /\ do_extract
    /\ Len(out) = 2
    /\ out[1].bytes = <<1, 2, 255>>
    /\ out[2].bytes = Rep(170, 20)

\* ------------------------------------------------------------------ C8

\* C8 (as claimed): when a file of the input directory has a name longer than
\* 15 UTF-8 bytes, pack_files fails and no byte of the archive is written.
C8_LongNameWritesNothing ==
    (\E k \in 1..Len(listing) :
        listing[k].isfile /\ Len(Utf8Encode(listing[k].name)) > 15)
    => (pc # "ready" /\ binfile = <<>>)

\* ------------------------------------------------------------------ C9

\* C9: in the archive pack_files writes from a directory of N regular files,
\* slot 0 is the Directory entry with offset 0x20, marker FF 00 00 and size
\* equal to the length of the archive, 32 * (N + 1) plus the payload buffer;
\* and the slice verify_data_crc takes for it ends exactly at the end of the
\* archive and holds the N file entries followed by the payload buffer, every
\* byte after the first slot.
C9_DirectoryEntry ==
    (pc = "ready" /\ RegularOnly /\ flip = -1) =>
        LET dir == parse_entry(SlotOf(binfile, 0))
            n   == Len(listing)
        IN  /\ dir.Type = "Directory"
            /\ dir.Offset = 32
            /\ dir.Unknown1_bytes = PlainMarker
            /\ dir.Size = Len(binfile)
            /\ dir.Size = 32 * (n + 1) + Len(binary_data)
            /\ DataEnd(dir) = Len(binfile)
            /\ DataDomain(dir, binfile) = 32 .. (Len(binfile) - 1)
            /\ file_data_of(dir, binfile) = Join(Tail(entries)) \o binary_data
            /\ crc16_ccitt(file_data_of(dir, binfile)) = dir.DataCRC

C9_Witness ==
    /\ pc = "ready" /\ RegularOnly /\ flip = -1
    /\ Len(listing) = 2
    /\ Len(binary_data) = 48

\* ------------------------------------------------------------------ C10

\* C10 (as claimed): whatever the input directory holds, sub-directories
\* included, the running offset of the pack loop is 32 * (the number of
\* header slots that will be written) plus the payload accumulated so far, and
\* in the written archive each File entry's Offset is a multiple of 16 and is
\* the position where that file's padded content begins.
C10_OffsetBookkeeping ==
    /\ (pc = "pack" /\ i >= 1) =>
        offset = 32 * (NumFiles + 1) + Len(binary_data)
    /\ pc = "ready" =>
        \A k \in 1..NumFiles :
            LET e == parse_entry(SlotOf(binfile, k))
                padded == Len(pad_to_multiple_of_16(Rep(0, e.Size)))
            IN  /\ e.Offset % 16 = 0
                /\ e.Offset >= 32 * (NumFiles + 1)
                /\ e.Offset + padded <= Len(binfile)
                /\ \A j \in 1..(k - 1) :
                    LET f == parse_entry(SlotOf(binfile, j))
                    IN  f.Offset + Len(pad_to_multiple_of_16(Rep(0, f.Size))) <= e.Offset

\* ----------------------------------------------- a buffer read as a whole

\* floor(len(buf) / 32)
NumSlots(buf) == Len(buf) \div entry_size

\* The complete slots of a buffer whose marker is FF 01 00.
SentinelSlots(buf) ==
    {k \in 0..(NumSlots(buf) - 1) : Slice(SlotOf(buf, k), 13, 16) = LastMarker}

\* The number of entries the entry-count rule gives: up to and including the
\* first sentinel slot, or every complete slot.
RuleCount(buf) ==
    IF SentinelSlots(buf) = {} THEN NumSlots(buf)
    ELSE 1 + CHOOSE k \in SentinelSlots(buf) : \A j \in SentinelSlots(buf) : k <= j

\* The slots among the first RuleCount whose name is not UTF-8.
BadNameSlots(buf) ==
    {k \in 0..(RuleCount(buf) - 1) : ParseRaises(SlotOf(buf, k))}

\* The buffer decodes with every check of every scanned entry passing.
DecodesOk(buf) ==
    \A k \in 0..(RuleCount(buf) - 1) :
        /\ ~ParseRaises(SlotOf(buf, k))
        /\ verify_header_crc(parse_entry(SlotOf(buf, k)))
        /\ verify_data_crc(parse_entry(SlotOf(buf, k)), buf)

\* The byte and the archive the flipped bit belongs to.
FlipByte == flip \div 8
Original == [binfile EXCEPT ![FlipByte + 1] = Xor8(@, Pow2(flip % 8))]

\* A read run has ended, one way or another.
Ended == pc \in {"aborted", "UnicodeDecodeError", "IsADirectoryError", "done"}

\* ------------------------------------------------------------------ C3

\* C3: the verification loop takes the collected entries in order and stops
\* at the first one with a failing check: every line printed before the last
\* has both checks passing, a failing line is the last one and the run is
\* then aborted with nothing extracted, and a file is extracted only when
\* every collected entry has been verified and has passed both checks.
C3_AllOrNothing ==
    /\ Len(printed) <= Len(read_entries)
    /\ \A k \in 1..(Len(printed) - 1) :
        printed[k].header_ok /\ printed[k].payload_ok
    /\ \A k \in 1..Len(printed) :
        /\ printed[k].header_ok = verify_header_crc(read_entries[k])
        /\ printed[k].payload_ok = verify_data_crc(read_entries[k], data)
        /\ (~printed[k].header_ok \/ ~printed[k].payload_ok) =>
            (pc = "aborted" /\ k = Len(printed) /\ vi = k - 1)
    /\ pc = "aborted" =>
        /\ printed # <<>>
        /\ ~(printed[Len(printed)].header_ok /\ printed[Len(printed)].payload_ok)
        /\ out = <<>>
        /\ xi = 0
    /\ (out # <<>> \/ pc \in {"extract", "done", "IsADirectoryError"}) =>
        /\ Len(printed) = Len(read_entries)
        /\ \A k \in 1..Len(printed) :
            printed[k].header_ok /\ printed[k].payload_ok

\* The first entry fails a check while a second one was collected: the run
\* is aborted with one line printed.
C3_Witness ==
    /\ pc = "aborted"
    /\ do_extract
    /\ Len(read_entries) = 2
    /\ Len(printed) = 1
    /\ printed[1].header_ok /\ ~printed[1].payload_ok
    /\ out = <<>>

\* ------------------------------------------------------------------ C4

\* C4 (as claimed): for every buffer, once the scan is over the number of
\* entries collected is the entry-count rule's, and the scan ends without error.
C4_AsClaimed ==
    pc \notin {"ready", "scan"} =>
        /\ Len(read_entries) = RuleCount(data)
        /\ pc # "UnicodeDecodeError"

\* C4 (amended): no slot after the sentinel slot is parsed; when the name
\* fields of the slots the rule counts are all UTF-8, the scan collects
\* exactly the rule's count (N for a first sentinel in slot N, the number of
\* complete slots without one, zero for a buffer shorter than one slot) and
\* raises nothing; when one is not UTF-8, the scan raises UnicodeDecodeError
\* at the first such slot, having collected the slots before it.
C4_EntryCount ==
    /\ Len(read_entries) <= RuleCount(data)
    /\ \A k \in 1..Len(read_entries) :
        read_entries[k] = parse_entry(SlotOf(data, k - 1))
    /\ pc \notin {"ready", "scan"} =>
        IF BadNameSlots(data) = {}
        THEN /\ Len(read_entries) = RuleCount(data)
             /\ pc # "UnicodeDecodeError"
        ELSE /\ pc = "UnicodeDecodeError"
             /\ Len(read_entries) \in BadNameSlots(data)
             /\ \A k \in BadNameSlots(data) : Len(read_entries) <= k
             /\ printed = <<>>
             /\ out = <<>>

\* Two complete slots follow nothing but each other, the first carries the
\* sentinel, and one entry was collected.
C4_Witness ==
    /\ pc = "verify"
    /\ NumSlots(data) = 2
    /\ 0 \in SentinelSlots(data)
    /\ Len(read_entries) = 1

\* ------------------------------------------------------------------ C5

\* The flipped bit lies in the header-checksum domain (bytes 2..31) of slot k,
\* an entry the scan of the untouched archive collects, and the untouched
\* archive decodes with every check passing.
HeaderFlipped(k) ==
    /\ flip # -1
    /\ FlipByte >= k * entry_size + 2
    /\ FlipByte < (k + 1) * entry_size
    /\ k < RuleCount(Original)
    /\ DecodesOk(Original)

\* The slot whose header the bit was flipped in, if any.
FlippedSlot == FlipByte \div entry_size

\* C5 (as claimed): after a flip in the header-checksum domain of entry k the
\* read run reports header_ok = false for entry k and halts there.
C5_AsClaimed ==
    (flip # -1 /\ Ended) =>
        \/ /\ pc = "aborted"
           /\ vi = FlippedSlot
           /\ Len(printed) = FlippedSlot + 1
           /\ ~printed[FlippedSlot + 1].header_ok
        \/ ~HeaderFlipped(FlippedSlot)

\* C5 (amended): after a flip in the header-checksum domain of entry k, the
\* header check of slot k fails whenever the slot still parses, and the read
\* run never completes and extracts nothing: it raises in the scan on a name
\* that is no longer UTF-8, or aborts at entry k with header_ok false, or
\* aborts before entry k at an entry whose payload check reads the flipped
\* byte and fails (in an archive pack_files wrote that is the Directory entry,
\* the first, for a flip in any File entry); no entry after the one it aborts
\* at is verified.
C5_HeaderTamper ==
    (flip # -1 /\ pc # "ready") =>
        LET k == FlippedSlot
        IN  \/ /\ ~ParseRaises(SlotOf(data, k)) =>
                    ~verify_header_crc(parse_entry(SlotOf(data, k)))
               /\ pc \notin {"extract", "done", "IsADirectoryError"}
               /\ out = <<>>
               /\ vi <= k
               /\ Len(printed) <= k + 1
               /\ Ended => pc \in {"aborted", "UnicodeDecodeError"}
               /\ pc = "aborted" =>
                    /\ Len(printed) = vi + 1
                    /\ vi = k => ~printed[k + 1].header_ok
                    /\ vi < k =>
                        /\ ~printed[vi + 1].payload_ok
                        /\ FlipByte \in DataDomain(read_entries[vi + 1], data)
                    /\ k >= 1 => (vi = 0 /\ read_entries[1].Type = "Directory")
            \/ ~HeaderFlipped(k)

\* A bit of the header domain of the second File entry was flipped, and the
\* run aborted at the Directory entry.
C5_Witness ==
    /\ flip # -1
    /\ pc = "aborted"
    /\ vi = 0
    /\ FlippedSlot = 2
    /\ HeaderFlipped(2)

\* ------------------------------------------------------------------ C6

\* C6: after a flip of a bit at a position inside [Offset, Offset + Size) of a
\* File entry of an archive that decoded with every check passing, the payload
\* check of that File entry, as the read run collected it, fails.
C6_PayloadTamper ==
    (flip # -1 /\ Scanned) =>
        \/ \A k \in 1..Len(read_entries) :
            LET e == read_entries[k]
            IN  (/\ e = parse_entry(SlotOf(Original, k - 1))
                 /\ e.Type = "File"
                 /\ e.Offset <= FlipByte
                 /\ FlipByte < e.Offset + e.Size)
                => ~verify_data_crc(e, data)
        \/ ~DecodesOk(Original)

\* The last payload byte of the first File entry was hit.
C6_Witness ==
    /\ flip # -1
    /\ Scanned
    /\ Len(read_entries) >= 2
    /\ read_entries[2].Type = "File"
    /\ read_entries[2].Size = 3
    /\ FlipByte = read_entries[2].Offset + 2
    /\ ~verify_data_crc(read_entries[2], data)

\* ------------------------------------------------------------------ C7

\* C7 (as claimed): the positions verify_data_crc reads for a collected entry
\* are the positions p of the buffer with Offset <= p < Offset + Size for a
\* File entry and Offset <= p < Offset + Size - 32 for a Directory entry.
C7_PayloadDomain ==
    \A k \in 1..Len(read_entries) :
        LET e == read_entries[k]
        IN  e.Type \in {"File", "Directory"} =>
                DataDomain(e, data) =
                    {p \in 0..(Len(data) - 1) :
                        /\ e.Offset <= p
                        /\ p < e.Offset + e.Size
                                 - (IF e.Type = "Directory" THEN 32 ELSE 0)}

====
